---- MODULE Spec2Model ----
(***************************************************************************)
(* Model of src/model.py: the Keras-style Model class and its two          *)
(* adapters, StaticGraphAdapter and DynamicGraphAdapter.                   *)
(*                                                                         *)
(* Encoding of Python values:                                              *)
(*   - None is the empty sequence <<>>, any other value v of an optional   *)
(*     attribute is the one-element sequence <<v>> (None / Some).          *)
(*   - a dict is a function whose DOMAIN is the set of keys.               *)
(*   - an argument that may be a list/tuple or a single value is a record  *)
(*     [islist |-> TRUE, items |-> seq] or [islist |-> FALSE, val |-> v].  *)
(*   - tensors are abstracted: an input is a token, the i-th element of    *)
(*     the caller's labels list is the number i, output i of forward is    *)
(*     the number i.                                                       *)
(* What the framework's executor computes is not modelled; a call's        *)
(* result "ok" means that the call reached executor.run (static) or        *)
(* returned from the adapter method (dynamic) without a Python exception   *)
(* raised by the code of model.py.                                         *)
(***************************************************************************)
EXTENDS Integers, Sequences, FiniteSets, TLC

VARIABLES
    dygraph,          \* in_dygraph_mode() when Model.__init__ ran
    mode,             \* Model.mode
    _optimizer,       \* Model._optimizer (None or the optimizer object)
    _loss_functions,  \* Model._loss_functions (list of names; "None" = no loss)
    _label_vars,      \* StaticGraphAdapter._label_vars
    _endpoints,       \* StaticGraphAdapter._endpoints (dict mode -> fetch list)
    _loss_endpoint,   \* StaticGraphAdapter._loss_endpoint
    _executor,        \* StaticGraphAdapter._executor
    _progs,           \* StaticGraphAdapter._progs (dict mode -> program)
    _compiled_progs,  \* StaticGraphAdapter._compiled_progs (dict hash -> compiled)
    _startup_prog,    \* variables the startup program initialises
    _scope,           \* initialised variables and their value (dict name -> value)
    optim_state,      \* state_dict() of the optimizer object (dygraph)
    disk,             \* what is stored at the checkpoint path
    hist,             \* history of the static adapter: how often forward was
                      \* traced per mode, minimize applied, an executor created,
                      \* the startup program run, and what it initialised twice
    last,             \* history: the last operation, how it ended, whether it
                      \* ran forward
    pair,             \* one train call made on a static and on a dynamic model
    deco              \* one use of the shape_hints decorator

\* ------------------------------------------------------------------ bounds

NumOutputs == 1   \* number of outputs forward returns
MaxOutputs == 2   \* most outputs of a forward whose losses are compared
MaxHints == 2     \* most keyword arguments given to shape_hints
MaxLoss == 1      \* longest loss-function list passed to prepare
MaxLabels == 1    \* longest labels list passed to train / eval
MaxCount == 2     \* history counters saturate here

\* ------------------------------------------------------------------ values

None == <<>>
Some(v) == <<v>>

Modes == {"train", "eval", "test"}
LossNames == {"None", "mse"}
Params == {"w"}        \* parameters, created in Model.__init__
OptVars == {"lr"}      \* variables optimizer.minimize creates

PyList(s) == [islist |-> TRUE, items |-> s]
PyScalar(v) == [islist |-> FALSE, val |-> v]

to_list(value) == IF value.islist THEN value.items ELSE <<value.val>>

Min(a, b) == IF a <= b THEN a ELSE b
Sat(n) == IF n < MaxCount THEN n + 1 ELSE n

SeqsUpTo(S, n) == UNION {[1..k -> S] : k \in 0..n}

\* dict update d[k] = v
Put(d, k, v) == [x \in DOMAIN d \cup {k} |-> IF x = k THEN v ELSE d[x]]

\* ------------------------------------------------------------ shape hints

\* a Python function object: its positional argument names and, when the
\* decorator attached them, its shape_hints attribute (an ordered dict given
\* as a sequence of <<name, value>> pairs, in keyword order)
Func(args, hints) == [args |-> args, shape_hints |-> hints]

extract_args(func) == func.args

Keys(od) == {od[i][1] : i \in 1..Len(od)}

\* OrderedDict: od[k] = v keeps the position of a key already present and
\* appends a new key
OdSet(od, k, v) ==
    IF k \in Keys(od)
    THEN [i \in 1..Len(od) |-> IF od[i][1] = k THEN <<k, v>> ELSE od[i]]
    ELSE Append(od, <<k, v>>)

RECURSIVE OdUpdate(_, _)
OdUpdate(od, kvs) ==
    IF kvs = <<>> THEN od
    ELSE OdUpdate(OdSet(od, Head(kvs)[1], Some(Head(kvs)[2])), Tail(kvs))

NotSelf(n) == n # "self"

\* StaticGraphAdapter.__init__, "parse shape hints"
input_desc(func) ==
    LET names == SelectSeq(extract_args(func), NotSelf)
        base == [i \in 1..Len(names) |-> <<names[i], None>>]
    IN  IF func.shape_hints # None
        THEN OdUpdate(base, func.shape_hints[1])
        ELSE base

\* shape_hints(**hints)(func): the assertion that fails, or "ok"
shape_hints_check(hints, func) ==
    IF hints = <<>> THEN "hints can not be empty"
    ELSE IF \E i \in 1..Len(hints) : ~hints[i][2].islist
    THEN "shape hint must be a list or tuple"
    ELSE IF Keys(hints) \ {extract_args(func)[i] : i \in 1..Len(extract_args(func))} # {}
    THEN "shape hint for arguments that are not present in forward method"
    ELSE "ok"

\* the function the decorator returns when no assertion fails
shape_hints_apply(hints, func) == Func(func.args, Some(hints))

\* the forward method of the model the adapters below wrap
Forward == Func(<<"self", "x">>, None)

\* ------------------------------------------------------- static adapter

OutName(i) == "o" \o ToString(i)
LabelName(i) == OutName(i) \o ".label"      \* _infer_label_var: output.name + '.label'

HasLoss(l) == l # "None"

\* zip(outputs, loss_functions), entries whose loss function is None skipped:
\* the indices of the outputs that get a loss
LossIndices(nout, loss_functions) ==
    LET n == Min(nout, Len(loss_functions))
        idx == [k \in 1..n |-> k]
    IN  SelectSeq(idx, LAMBDA k : HasLoss(loss_functions[k]))

NotBuiltAlways(progs, m) == TRUE

\* line 134
NotBuilt(progs, m) == m \notin DOMAIN progs

\* _make_program: the program of mode m, its endpoints, and for 'train' the
\* label variables, the loss endpoint and the optimizer's minimize
make_program(st, m, nout, loss_functions) ==
    LET outputs == [i \in 1..nout |-> <<"out", i>>]
        idx == LossIndices(nout, loss_functions)
        label_vars == idx
        losses == [j \in 1..Len(idx) |-> <<loss_functions[idx[j]], idx[j]>>]
        ends == IF m # "test" THEN losses ELSE outputs
        prog == [mode |-> m, for_test |-> (m # "train"), ops |-> ends,
                 optimize |-> (m = "train")]
    IN  [st EXCEPT
            !.label_vars = IF m = "train" THEN Some(label_vars) ELSE @,
            !.loss_endpoint = IF m = "train" THEN Some("sum") ELSE @,
            !.startup = IF m = "train" THEN @ \cup OptVars ELSE @,
            !.progs = Put(@, m, prog),
            !.endpoints = Put(@, m, ends),
            !.hist = [@ EXCEPT !.traced[m] = Sat(@),
                               !.minimized = IF m = "train" THEN Sat(@) ELSE @]]

\* decimal digits of a natural number, the characters of str(i)
RECURSIVE Digits(_)
Digits(n) == IF n < 10 THEN <<n>> ELSE Append(Digits(n \div 10), n % 10)

\* a < b for strings of digits (lexicographic, as list.sort() orders str)
RECURSIVE LexLess(_, _)
LexLess(a, b) ==
    IF a = <<>> THEN b # <<>>
    ELSE IF b = <<>> THEN FALSE
    ELSE IF Head(a) # Head(b) THEN Head(a) < Head(b)
    ELSE LexLess(Tail(a), Tail(b))

RECURSIVE Insert(_, _)
Insert(x, s) ==
    IF s = <<>> THEN <<x>>
    ELSE IF LexLess(Digits(x), Digits(Head(s))) THEN <<x>> \o s
    ELSE <<Head(s)>> \o Insert(x, Tail(s))

RECURSIVE SortIds(_)
SortIds(ids) == IF ids = <<>> THEN <<>> ELSE Insert(Head(ids), SortIds(Tail(ids)))

RECURSIVE Join(_, _)
Join(strs, sep) ==
    IF Len(strs) = 1 THEN strs[1]
    ELSE strs[1] \o sep \o Join(Tail(strs), sep)

\* lines 137-139: '_'.join([mode] + sorted(str(i) for i in device_ids))
prog_hash(m, ids) ==
    LET sorted == SortIds(ids)
    IN  Join(<<m>> \o [i \in 1..Len(sorted) |-> ToString(sorted[i])], "_")

\* str.lower() on the device names used
Lower(device) ==
    CASE device = "CPU" -> "cpu"
      [] device = "GPU" -> "gpu"
      [] OTHER -> device

\* line 228
ExecutorMissing(executor) == executor = None

UninitializedAll(startup, scope) == startup

\* lines 233-238: the startup variables not yet initialised in the scope
Uninitialized(startup, scope) == {v \in startup : v \notin DOMAIN scope}

\* _compile_and_initialize(prog, device, device_ids); device_ids is a list here
compile_and_initialize(st, prog, device, ids) ==
    LET dev == Lower(device)
        exc == IF dev = "cpu" THEN ""
               ELSE IF dev = "gpu" THEN (IF ids = <<>> THEN "index_error" ELSE "")
               ELSE "unsupported"
        place == IF dev = "cpu" THEN "CPUPlace"
                 ELSE "CUDAPlace(" \o ToString(ids[1]) \o ")"
        parallel == dev = "gpu" /\ Len(ids) > 0
        compiled == [prog |-> prog, device |-> dev, device_ids |-> ids,
                     places |-> IF parallel THEN Some(ids) ELSE None,
                     loss_name |-> IF parallel THEN st.loss_endpoint ELSE None]
        uninit == Uninitialized(st.startup, st.scope)
        create == ExecutorMissing(st.executor)
    IN  IF exc # "" THEN [st EXCEPT !.exc = exc]
        ELSE [st EXCEPT
            !.compiled = Some(compiled),
            !.executor = IF create THEN Some(place) ELSE @,
            !.scope = IF create
                      THEN [v \in DOMAIN @ \cup uninit |->
                               IF v \in uninit THEN "init" ELSE @[v]]
                      ELSE @,
            !.hist = IF create
                     THEN [@ EXCEPT !.executors = Sat(@),
                                    !.startups = IF uninit # {} THEN Sat(@) ELSE @,
                                    !.reinit = @ \cup (uninit \cap DOMAIN st.scope)]
                     ELSE @]

\* the adapter's attributes, with what one call adds: the exception raised
\* (exc), the compiled program in hand (compiled), and what executor.run got
AdapterState ==
    [label_vars |-> _label_vars, endpoints |-> _endpoints,
     loss_endpoint |-> _loss_endpoint, executor |-> _executor,
     progs |-> _progs, compiled_progs |-> _compiled_progs,
     startup |-> _startup_prog, scope |-> _scope, hist |-> hist,
     exc |-> "", compiled |-> None, ran |-> None, fetch |-> <<>>,
     feed |-> <<>>]

\* line 130
check_inputs(st, inputs) ==
    IF Len(inputs) = Len(input_desc(Forward)) THEN st
    ELSE [st EXCEPT !.exc = "assertion_inputs"]

\* lines 134-135
build(st, m, nout, loss_functions) ==
    IF st.exc # "" THEN st
    ELSE IF NotBuilt(st.progs, m) THEN make_program(st, m, nout, loss_functions)
    ELSE st

\* lines 137-144; iterating over device_ids = None raises TypeError
compile(st, m, device, device_ids) ==
    IF st.exc # "" THEN st
    ELSE IF device_ids = None THEN [st EXCEPT !.exc = "type_error"]
    ELSE LET h == prog_hash(m, device_ids[1])
         IN  IF h \in DOMAIN st.compiled_progs
             THEN [st EXCEPT !.compiled = Some(st.compiled_progs[h])]
             ELSE LET c == compile_and_initialize(st, st.progs[m], device, device_ids[1])
                  IN  IF c.exc # "" THEN c
                      ELSE [c EXCEPT !.compiled_progs = Put(@, h, c.compiled[1])]

\* lines 146-151
input_feed(inputs) ==
    LET desc == input_desc(Forward)
    IN  [n \in {desc[i][1] : i \in 1..Len(inputs)} |->
            inputs[CHOOSE i \in 1..Len(inputs) : desc[i][1] = n]]

\* lines 152-154: feed[v.name] = labels[idx] for idx, v in enumerate(_label_vars)
label_feed(label_vars, labels) ==
    [n \in {LabelName(label_vars[k]) : k \in 1..Len(label_vars)} |->
        labels[CHOOSE k \in 1..Len(label_vars) : LabelName(label_vars[k]) = n]]

make_feed(st, inputs, labels) ==
    IF st.exc # "" THEN st
    ELSE IF labels = None THEN [st EXCEPT !.feed = input_feed(inputs)]
    ELSE IF st.label_vars = None THEN [st EXCEPT !.exc = "type_error"]
    ELSE IF Len(labels[1]) < Len(st.label_vars[1]) THEN [st EXCEPT !.exc = "index_error"]
    ELSE [st EXCEPT !.feed = label_feed(st.label_vars[1], labels[1]) @@ input_feed(inputs)]

\* lines 156-159: the compiled program and the fetch list executor.run gets
execute(st, m) ==
    IF st.exc # "" THEN st
    ELSE [st EXCEPT !.ran = st.compiled, !.fetch = st.endpoints[m]]

\* StaticGraphAdapter._run with self.mode = m, on a model whose forward
\* returns nout outputs
run(st, m, nout, loss_functions, inputs, labels, device, device_ids) ==
    execute(
        make_feed(
            compile(build(check_inputs(st, inputs), m, nout, loss_functions),
                    m, device, device_ids),
            inputs, labels),
        m)

\* what the fetched endpoints are computed from: <<loss, output, label fed>>
\* per endpoint (label 0: nothing fed for it)
Returned(fetch, feed) ==
    [k \in 1..Len(fetch) |->
        <<fetch[k][1], fetch[k][2],
          IF LabelName(fetch[k][2]) \in DOMAIN feed
          THEN feed[LabelName(fetch[k][2])] ELSE 0>>]

\* ------------------------------------------------------ dynamic adapter

\* DynamicGraphAdapter._loss: zip(to_list(pred), loss_functions, labels),
\* entries whose loss function is None skipped; <<loss, output, label>> each
dynamic_loss(nout, loss_functions, labels) ==
    LET n == Min(Min(nout, Len(loss_functions)), Len(labels))
        idx == SelectSeq([k \in 1..n |-> k], LAMBDA k : HasLoss(loss_functions[k]))
    IN  [j \in 1..Len(idx) |-> <<loss_functions[idx[j]], idx[j], labels[idx[j]]>>]

\* forward(*inputs) raises TypeError unless it gets one value per argument
forward_accepts(inputs) == Len(inputs) = Len(SelectSeq(extract_args(Forward), NotSelf))

\* to_list(labels) of the dynamic adapter; labels = None becomes [None],
\* written <<0>> (0 is no element of a labels list)
dynamic_labels(labels) == IF labels = None THEN <<0>> ELSE to_list(labels[1])

\* to_variable(None) raises: a loss paired with the label None
pairs_none(losses) == \E k \in 1..Len(losses) : losses[k][3] = 0

\* --------------------------------------------------------------- Model

train_ready_optimizer_only(optimizer, loss_functions) == optimizer # None

\* the assertions of train (lines 98, 260) and eval (lines 104, 275)
train_ready(optimizer, loss_functions) == optimizer # None /\ loss_functions # <<>>
eval_ready(loss_functions) == loss_functions # <<>>

NoHist == [traced |-> [m \in Modes |-> 0], minimized |-> 0, executors |-> 0,
           startups |-> 0, reinit |-> {}]

Last(op, result) == [op |-> op, result |-> result, forwarded |-> FALSE]

\* a call that ran forward
Forwarded(op, result) == [op |-> op, result |-> result, forwarded |-> TRUE]

\* checkpoints an earlier run may have left at the path
NoCheckpoint == [pdparams |-> None, pdopt |-> None]

Checkpoints ==
    {NoCheckpoint,
     [pdparams |-> Some("ckpt"), pdopt |-> None],
     [pdparams |-> Some("ckpt"), pdopt |-> Some("ckpt")]}

\* Model.__init__ and the adapter's __init__
Init ==
    /\ dygraph \in BOOLEAN
    /\ mode = "train"
    /\ _optimizer = None
    /\ _loss_functions = <<>>
    /\ _label_vars = None
    /\ _endpoints = <<>>
    /\ _loss_endpoint = None
    /\ _executor = None
    /\ _progs = <<>>
    /\ _compiled_progs = <<>>
    /\ _startup_prog = IF dygraph THEN {} ELSE Params
    /\ _scope = IF dygraph THEN [v \in Params |-> "init"] ELSE <<>>
    /\ optim_state = "empty"
    /\ disk \in IF dygraph THEN Checkpoints ELSE {NoCheckpoint}
    /\ hist = NoHist
    /\ last = Last("init", "ok")
    /\ pair = <<>>
    /\ deco = <<>>

model_vars == <<dygraph, _optimizer, _loss_functions>>
adapter_vars == <<_label_vars, _endpoints, _loss_endpoint, _executor, _progs,
                  _compiled_progs, _startup_prog, _scope, hist>>
vars == <<dygraph, mode, _optimizer, _loss_functions, _label_vars, _endpoints,
          _loss_endpoint, _executor, _progs, _compiled_progs, _startup_prog,
          _scope, optim_state, disk, hist, last, pair, deco>>

\* the static adapter's attributes after a call that left them as st
SetAdapter(st) ==
    /\ _label_vars' = st.label_vars
    /\ _endpoints' = st.endpoints
    /\ _loss_endpoint' = st.loss_endpoint
    /\ _executor' = st.executor
    /\ _progs' = st.progs
    /\ _compiled_progs' = st.compiled_progs
    /\ _startup_prog' = st.startup
    /\ _scope' = st.scope
    /\ hist' = st.hist

StaticLast(op, st) ==
    [op |-> op, result |-> IF st.exc = "" THEN "ok" ELSE st.exc,
     forwarded |-> st.hist.traced # hist.traced]

\* StaticGraphAdapter.train / eval / test after the readiness assertion
StaticCall(op, inputs, labels, device, device_ids) ==
    LET st == run(AdapterState, op, NumOutputs, _loss_functions, to_list(inputs),
                  IF labels = None THEN None ELSE Some(to_list(labels[1])),
                  device, device_ids)
    IN  /\ mode' = op
        /\ SetAdapter(st)
        /\ last' = StaticLast(op, st)
        /\ UNCHANGED <<model_vars, optim_state, disk>>

NotReady(op) ==
    /\ last' = Last(op, "not_ready")
    /\ UNCHANGED <<model_vars, mode, adapter_vars, optim_state, disk>>

\* DynamicGraphAdapter.train after the assertion
DynamicTrain(inputs, labels) ==
    LET losses == dynamic_loss(NumOutputs, _loss_functions, dynamic_labels(labels))
    IN  /\ mode' = "train"
        /\ IF ~forward_accepts(to_list(inputs))
           THEN /\ last' = Last("train", "type_error")
                /\ UNCHANGED <<_scope, optim_state>>
           ELSE IF pairs_none(losses)
           THEN /\ last' = Forwarded("train", "type_error")
                /\ UNCHANGED <<_scope, optim_state>>
           ELSE /\ last' = Forwarded("train", "ok")
                /\ _scope' = [v \in DOMAIN _scope |-> "trained"]
                /\ optim_state' \in {"trained"} \cup ({optim_state} \cap {"empty"})
        /\ UNCHANGED <<model_vars, _label_vars, _endpoints, _loss_endpoint, _executor,
                       _progs, _compiled_progs, _startup_prog, hist, disk>>

\* DynamicGraphAdapter.eval after the assertion
DynamicEval(inputs, labels) ==
    LET losses == dynamic_loss(NumOutputs, _loss_functions, dynamic_labels(labels))
    IN  /\ mode' = "eval"
        /\ last' = IF ~forward_accepts(to_list(inputs)) THEN Last("eval", "type_error")
                   ELSE IF pairs_none(losses) THEN Forwarded("eval", "type_error")
                   ELSE Forwarded("eval", "ok")
        /\ UNCHANGED <<model_vars, adapter_vars, optim_state, disk>>

\* DynamicGraphAdapter.test
DynamicTest(inputs) ==
    /\ mode' = "test"
    /\ last' = IF forward_accepts(to_list(inputs)) THEN Forwarded("test", "ok")
               ELSE Last("test", "type_error")
    /\ UNCHANGED <<model_vars, adapter_vars, optim_state, disk>>

\* Model.train(inputs, labels, device, device_ids)
TrainCall(inputs, labels, device, device_ids) ==
    IF ~train_ready(_optimizer, _loss_functions) THEN NotReady("train")
    ELSE IF dygraph THEN DynamicTrain(inputs, labels)
    ELSE StaticCall("train", inputs, labels, device, device_ids)

\* Model.eval(inputs, labels, device, device_ids)
EvalCall(inputs, labels, device, device_ids) ==
    IF ~eval_ready(_loss_functions) THEN NotReady("eval")
    ELSE IF dygraph THEN DynamicEval(inputs, labels)
    ELSE StaticCall("eval", inputs, labels, device, device_ids)

\* Model.test(inputs, device, device_ids)
TestCall(inputs, device, device_ids) ==
    IF dygraph THEN DynamicTest(inputs)
    ELSE StaticCall("test", inputs, None, device, device_ids)

\* Model.prepare(optimizer, loss_functions)
PrepareCall(optimizer, loss_functions) ==
    /\ _optimizer' = optimizer
    /\ _loss_functions' = to_list(loss_functions)
    /\ last' = Last("prepare", "ok")
    /\ UNCHANGED <<dygraph, mode, adapter_vars, optim_state, disk>>

\* StaticGraphAdapter.load: fluid.load(main_prog, path, executor) sets the
\* parameters of the main program in the adapter's scope
StaticLoad ==
    /\ IF disk.pdparams = None
       THEN /\ _scope' = _scope
            /\ last' = Last("load", "framework_error")
       ELSE /\ _scope' = Put(_scope, "w", disk.pdparams[1])
            /\ last' = Last("load", "ok")
    /\ UNCHANGED <<model_vars, mode, _label_vars, _endpoints, _loss_endpoint,
                   _executor, _progs, _compiled_progs, _startup_prog, hist,
                   optim_state, disk>>

\* lines 294 and 297: is there optimizer state to store
stores_optimizer(optimizer, state) == optimizer # None /\ state # "empty"

\* DynamicGraphAdapter.save
DynamicSave ==
    /\ disk' = [pdparams |-> Some(_scope["w"]),
                pdopt |-> IF stores_optimizer(_optimizer, optim_state)
                          THEN Some(optim_state) ELSE disk.pdopt]
    /\ last' = Last("save", IF _optimizer = None THEN "params_only" ELSE "ok")
    /\ UNCHANGED <<model_vars, mode, adapter_vars, optim_state>>

\* DynamicGraphAdapter.load; load_dygraph raises when no parameters are stored
DynamicLoad ==
    /\ IF disk.pdparams = None
       THEN /\ last' = Last("load", "framework_error")
            /\ UNCHANGED <<_scope, optim_state>>
       ELSE /\ _scope' = Put(_scope, "w", disk.pdparams[1])
            /\ IF disk.pdopt = None
               THEN /\ last' = Last("load", "params_only")
                    /\ optim_state' = optim_state
               ELSE IF _optimizer = None
               THEN /\ last' = Last("load", "attribute_error")
                    /\ optim_state' = optim_state
               ELSE /\ last' = Last("load", "ok")
                    /\ optim_state' = disk.pdopt[1]
    /\ UNCHANGED <<model_vars, mode, _label_vars, _endpoints, _loss_endpoint,
                   _executor, _progs, _compiled_progs, _startup_prog, hist, disk>>

\* ------------------------------------------------------------- inputs

Inputs == {PyScalar("a"), PyList(<<"a", "b">>)}
LabelLists == {[i \in 1..n |-> i] : n \in 0..MaxLabels}
Labels == {None} \cup {Some(PyList(l)) : l \in LabelLists}
Optimizers == {None, Some("opt")}
LossFunctions == {PyScalar("mse")}
                 \cup {PyList(s) : s \in SeqsUpTo(LossNames, MaxLoss)}

\* device and device_ids: the defaults, and one explicit list
Devices == {"CPU"}
DeviceIds == {None, Some(<<0>>)}

aux_vars == <<pair, deco>>

Train ==
    /\ \E i \in Inputs, l \in Labels, d \in Devices, ids \in DeviceIds :
          TrainCall(i, l, d, ids)
    /\ UNCHANGED aux_vars
Eval ==
    /\ \E i \in Inputs, l \in Labels, d \in Devices, ids \in DeviceIds :
          EvalCall(i, l, d, ids)
    /\ UNCHANGED aux_vars
Test ==
    /\ \E i \in Inputs, d \in Devices, ids \in DeviceIds : TestCall(i, d, ids)
    /\ UNCHANGED aux_vars
Prepare ==
    /\ \E o \in Optimizers, l \in LossFunctions : PrepareCall(o, l)
    /\ UNCHANGED aux_vars
Save ==
    /\ dygraph
    /\ DynamicSave
    /\ UNCHANGED aux_vars
Load ==
    /\ dygraph
    /\ DynamicLoad
    /\ UNCHANGED aux_vars

Next == Prepare \/ Train \/ Eval \/ Test \/ Save \/ Load

\* a model in either execution mode, any prepare, calls on the CPU, save and
\* load in dynamic mode
Spec == Init /\ [][Next]_vars

\* ---------------------------------------------- devices, static mode

AllDevices == {"CPU", "GPU", "XPU"}
AllDeviceIds == {None, Some(<<>>), Some(<<0>>)}

\* a static-mode model after prepare(opt, ['mse'])
PreparedModel ==
    /\ dygraph = FALSE
    /\ mode = "train"
    /\ _optimizer = Some("opt")
    /\ _loss_functions = <<"mse">>
    /\ _label_vars = None
    /\ _endpoints = <<>>
    /\ _loss_endpoint = None
    /\ _executor = None
    /\ _progs = <<>>
    /\ _compiled_progs = <<>>
    /\ _startup_prog = Params
    /\ _scope = <<>>
    /\ optim_state = "empty"
    /\ disk \in Checkpoints
    /\ hist = NoHist
    /\ last = Last("prepare", "ok")

InitPrepared ==
    /\ PreparedModel
    /\ pair = <<>>
    /\ deco = <<>>

TrainOn ==
    /\ \E l \in {None, Some(PyList(<<1>>))}, d \in AllDevices, ids \in AllDeviceIds :
          TrainCall(PyScalar("a"), l, d, ids)
    /\ UNCHANGED aux_vars
EvalOn ==
    /\ \E l \in {None, Some(PyList(<<1>>))}, d \in AllDevices, ids \in AllDeviceIds :
          EvalCall(PyScalar("a"), l, d, ids)
    /\ UNCHANGED aux_vars
TestOn ==
    /\ \E d \in AllDevices, ids \in AllDeviceIds : TestCall(PyScalar("a"), d, ids)
    /\ UNCHANGED aux_vars
LoadOn ==
    /\ StaticLoad
    /\ UNCHANGED aux_vars

NextDevice == TrainOn \/ EvalOn \/ TestOn \/ LoadOn

\* a prepared static-mode model, calls on every device, load
SpecDevice == InitPrepared /\ [][NextDevice]_vars

\* ------------------------------- one train call, static and dynamic

LossLists == SeqsUpTo(LossNames, MaxOutputs)

\* a static-mode adapter right after construction
FreshAdapter ==
    [label_vars |-> None, endpoints |-> <<>>, loss_endpoint |-> None,
     executor |-> None, progs |-> <<>>, compiled_progs |-> <<>>,
     startup |-> Params, scope |-> <<>>, hist |-> NoHist,
     exc |-> "", compiled |-> None, ran |-> None, fetch |-> <<>>, feed |-> <<>>]

\* what a call gave back: the exception, or <<loss, output, label>> per
\* returned loss
Outcome(exc, returned) == [exc |-> exc, returned |-> returned]

\* the loss-function list, the number of outputs and the labels list of the call
InitPair ==
    /\ PreparedModel
    /\ disk.pdparams = None
    /\ deco = <<>>
    /\ \E lf \in LossLists \ {<<>>}, n \in 1..MaxOutputs, k \in 0..MaxOutputs :
          pair = [loss_functions |-> lf, nout |-> n, labels |-> [i \in 1..k |-> i],
                  static |-> None, dynamic |-> None]

main_vars == <<dygraph, mode, _optimizer, _loss_functions, _label_vars, _endpoints,
               _loss_endpoint, _executor, _progs, _compiled_progs, _startup_prog,
               _scope, optim_state, disk, hist, last>>

\* prepare(opt, loss_functions); train(x, labels, 'CPU', [0]) on a new model
\* in static mode
PairStatic ==
    /\ pair.static = None
    /\ LET st == run(FreshAdapter, "train", pair.nout, pair.loss_functions,
                     <<"a">>, Some(pair.labels), "CPU", Some(<<0>>))
       IN  pair' = [pair EXCEPT !.static =
                       Some(Outcome(st.exc, Returned(st.fetch, st.feed)))]
    /\ UNCHANGED <<main_vars, deco>>

\* the same two calls on a new model in dynamic mode
PairDynamic ==
    /\ pair.dynamic = None
    /\ pair' = [pair EXCEPT !.dynamic =
                   Some(Outcome("", dynamic_loss(pair.nout, pair.loss_functions,
                                                 pair.labels)))]
    /\ UNCHANGED <<main_vars, deco>>

NextPair == PairStatic \/ PairDynamic

SpecPair == InitPair /\ [][NextPair]_vars

\* ---------------------------------------------------- the decorator

ArgLists == {<<"self">>, <<"self", "x">>, <<"self", "x", "y">>, <<"self", "y", "x">>}
HintNames == {"self", "x", "y", "z"}
HintValues == {PyList(<<1>>), PyList(<<2, 3>>), PyScalar(5)}

\* keyword arguments: an ordered run of <<name, value>>, no name twice
Kwargs ==
    {kv \in SeqsUpTo(HintNames \X HintValues, MaxHints) :
        \A i, j \in 1..Len(kv) : i # j => kv[i][1] # kv[j][1]}

\* a forward method, and the hints of a shape_hints(**hints) about to
\* decorate it (None: forward is left undecorated)
InitDeco ==
    /\ PreparedModel
    /\ disk.pdparams = None
    /\ pair = <<>>
    /\ \E a \in ArgLists, h \in {None} \cup {Some(kv) : kv \in Kwargs} :
          deco = [func |-> Func(a, None), hints |-> h, result |-> "", desc |-> None]

\* @shape_hints(**hints) applied to forward
Decorate ==
    /\ deco.hints # None
    /\ deco.result = ""
    /\ LET r == shape_hints_check(deco.hints[1], deco.func)
       IN  deco' = [deco EXCEPT
                       !.result = r,
                       !.func = IF r = "ok" THEN shape_hints_apply(deco.hints[1], @)
                                ELSE @]
    /\ UNCHANGED <<main_vars, pair>>

\* StaticGraphAdapter.__init__ on a model with this forward
Construct ==
    /\ deco.hints # None => deco.result = "ok"
    /\ deco.desc = None
    /\ deco' = [deco EXCEPT !.desc = Some(input_desc(deco.func))]
    /\ UNCHANGED <<main_vars, pair>>

NextDeco == Decorate \/ Construct

SpecDeco == InitDeco /\ [][NextDeco]_vars

\* ------------------------------------------------------------ claims

StaticInputs == {<<"a">>, <<"a", "b">>}
StaticLabels == {None} \cup {Some(l) : l \in LabelLists}

\* C1: train on a model without optimizer or with an empty loss-function
\* list, and eval on a model with an empty loss-function list, end with the
\* "model not ready" assertion, without running forward, and leave mode, the
\* program cache, the compiled-program cache and the executor as they were;
\* no other train or eval call and no test call ends with that assertion.
C1_NotReadyRejected ==
    [][/\ (last'.op = "train" /\ (_optimizer = None \/ _loss_functions = <<>>))
            => (last'.result = "not_ready" /\ ~last'.forwarded
                /\ UNCHANGED <<mode, _progs, _compiled_progs, _executor, hist>>)
       /\ (last'.op = "eval" /\ _loss_functions = <<>>)
            => (last'.result = "not_ready" /\ ~last'.forwarded
                /\ UNCHANGED <<mode, _progs, _compiled_progs, _executor, hist>>)
       /\ (last'.op \in {"train", "eval"} /\ last'.result = "not_ready")
            => (_loss_functions = <<>> \/ (last'.op = "train" /\ _optimizer = None))
       /\ last'.op = "test" => last'.result # "not_ready"]_vars

\* C1 witness: a train call was rejected on a model that has an optimizer
\* (the loss-function list is empty) after a test call had built and
\* compiled a program
C1_Witness ==
    /\ last = Last("train", "not_ready")
    /\ _optimizer # None
    /\ "test" \in DOMAIN _progs
    /\ _executor # None

\* C7: in static mode forward is traced at most once per mode and minimize is
\* applied at most once, both exactly when the mode's program is cached; and
\* once a mode's program is cached, no call in that mode, whatever its
\* arguments, changes the program cache, the endpoints or the trace counts,
\* and a call that reaches executor.run runs the cached program and fetches
\* the endpoints recorded with it.
C7_BuiltOncePerMode ==
    ~dygraph =>
        /\ \A m \in Modes :
            /\ hist.traced[m] <= 1
            /\ (hist.traced[m] = 1) <=> (m \in DOMAIN _progs)
            /\ (m \in DOMAIN _progs) <=> (m \in DOMAIN _endpoints)
        /\ hist.minimized <= 1
        /\ (hist.minimized = 1) <=> ("train" \in DOMAIN _progs)
        /\ \A m \in DOMAIN _progs :
            \A i \in StaticInputs, l \in StaticLabels, d \in Devices, ids \in DeviceIds :
                LET st == run(AdapterState, m, NumOutputs, _loss_functions, i, l, d, ids)
                IN  /\ st.progs = _progs
                    /\ st.endpoints = _endpoints
                    /\ st.hist.traced = hist.traced
                    /\ st.hist.minimized = hist.minimized
                    /\ st.exc = "" =>
                        /\ st.ran[1].prog = _progs[m]
                        /\ st.fetch = _endpoints[m]
                        /\ st.fetch = _progs[m].ops

\* C7 witness: all three programs are cached, the train program was built
\* under other loss functions than the model has now, and the last call was
\* a train call that ran
C7_Witness ==
    /\ ~dygraph
    /\ DOMAIN _progs = Modes
    /\ _progs["train"].ops # <<>>
    /\ _loss_functions = <<"None">>
    /\ last = [op |-> "train", result |-> "ok", forwarded |-> FALSE]

\* C2 (as claimed): in static mode, on a model prepared with an optimizer and
\* a loss function for every entry, a train, eval or test call that leaves device and
\* device_ids at their defaults ('CPU', None) and passes one input per
\* argument of forward runs: it does not raise.
C2_DefaultCallRuns ==
    [][\A i \in Inputs, l \in Labels :
          (/\ ~dygraph
           /\ _optimizer # None
           /\ _loss_functions # <<>>
           /\ \A k \in 1..Len(_loss_functions) : _loss_functions[k] # "None"
           /\ Len(to_list(i)) = Len(input_desc(Forward))
           /\ \/ TrainCall(i, l, "CPU", None)
              \/ EvalCall(i, l, "CPU", None)
              \/ TestCall(i, "CPU", None))
          => last'.result = "ok"]_vars

\* C3 (as claimed): in static mode, once prepare has set a loss function for
\* the outputs, eval(inputs, labels) with one label per loss runs, whatever
\* was called before, and feeds a label to the label variable of every loss
\* the eval program computes.
C3_EvalAnyOrder ==
    [][\A l \in LabelLists :
          (/\ ~dygraph
           /\ _loss_functions # <<>>
           /\ \A k \in 1..Len(_loss_functions) : _loss_functions[k] # "None"
           /\ Len(l) = Len(LossIndices(NumOutputs, _loss_functions))
           /\ EvalCall(PyScalar("a"), Some(PyList(l)), "CPU", Some(<<0>>)))
          => LET st == run(AdapterState, "eval", NumOutputs, _loss_functions,
                           <<"a">>, Some(l), "CPU", Some(<<0>>))
             IN  /\ last'.result = "ok"
                 /\ \A k \in 1..Len(st.fetch) :
                       LabelName(st.fetch[k][2]) \in DOMAIN st.feed]_vars

\* C4 (as claimed): with one loss function (or None) and one label per
\* output, the same train call on a static and on a dynamic model computes
\* the loss of each output against the same element of the labels list, and
\* both return one loss per loss function that is not None, in output order.
C4_SamePairing ==
    (/\ pair # <<>>
     /\ pair.static # None
     /\ pair.dynamic # None
     /\ Len(pair.loss_functions) = pair.nout
     /\ Len(pair.labels) = pair.nout)
    => /\ pair.static[1] = pair.dynamic[1]
       /\ Len(pair.static[1].returned)
            = Cardinality({k \in 1..pair.nout : pair.loss_functions[k] # "None"})

C5_Names(args) == SelectSeq(args, LAMBDA n : n # "self")
C5_Hinted(hints, n) == \E i \in 1..Len(hints) : hints[i][1] = n
C5_Hint(hints, n) == hints[CHOOSE i \in 1..Len(hints) : hints[i][1] = n][2]

\* C5 (as claimed): shape_hints fails an assertion exactly when no hint is
\* given, a hint is no list or tuple, or a hint names no argument of
\* forward; otherwise it attaches the hints, and the adapter's input
\* description lists the arguments of forward other than self, in
\* declaration order, each with its hinted shape or None.
C5_ShapeHints ==
    deco # <<>> =>
    LET args == deco.func.args
        names == C5_Names(args)
        hints == IF deco.hints = None THEN <<>> ELSE deco.hints[1]
        valid == /\ hints # <<>>
                 /\ \A i \in 1..Len(hints) : hints[i][2].islist
                 /\ \A i \in 1..Len(hints) : \E j \in 1..Len(args) : args[j] = hints[i][1]
    IN  /\ (deco.hints # None /\ deco.result # "") =>
             /\ (deco.result = "ok") <=> valid
             /\ deco.result = "ok" => deco.func.shape_hints = Some(hints)
             /\ deco.result # "ok" => deco.func.shape_hints = None
        /\ deco.desc # None =>
             deco.desc[1] = [i \in 1..Len(names) |->
                               <<names[i], IF C5_Hinted(hints, names[i])
                                           THEN Some(C5_Hint(hints, names[i]))
                                           ELSE None>>]

\* C6 (as claimed): in dynamic mode load sets the parameters to the stored
\* ones; it sets the optimizer state to the stored one when one is stored,
\* and otherwise reports "load parameters only", leaves the optimizer state
\* as it is and returns. save stores the parameters, and stores optimizer
\* state only when the model has an optimizer whose state is not empty.
C6_LoadSave ==
    [][dygraph =>
        /\ (last'.op = "load" /\ disk.pdparams # None) =>
             /\ _scope'["w"] = disk.pdparams[1]
             /\ IF disk.pdopt = None
                THEN last'.result = "params_only" /\ optim_state' = optim_state
                ELSE last'.result = "ok" /\ optim_state' = disk.pdopt[1]
        /\ last'.op = "save" =>
             /\ disk'.pdparams = Some(_scope["w"])
             /\ disk'.pdopt # disk.pdopt =>
                  /\ _optimizer # None
                  /\ optim_state # "empty"
                  /\ disk'.pdopt = Some(optim_state)]_vars

\* C8: in static mode the executor is created at most once, by the first
\* compilation, and the startup program is run at most once, in the step
\* that creates the executor, for the startup variables that are not
\* initialised; no variable is initialised twice, and a variable keeps the
\* value it has (a loaded one too) unless load sets it.
C8_ExecutorAndStartupOnce ==
    /\ [](/\ hist.executors <= 1
          /\ hist.startups <= hist.executors
          /\ hist.reinit = {}
          /\ (hist.executors = 1) <=> (_executor # None)
          /\ _compiled_progs # <<>> => _executor # None)
    /\ [][/\ _executor # None => _executor' = _executor
          /\ hist.startups' # hist.startups =>
                /\ _executor = None
                /\ _executor' # None
                /\ DOMAIN _scope' = DOMAIN _scope \cup _startup_prog'
          /\ \A v \in DOMAIN _scope :
                /\ v \in DOMAIN _scope'
                /\ last'.op # "load" => _scope'[v] = _scope[v]
          /\ (DOMAIN _scope' # DOMAIN _scope /\ last'.op # "load") =>
                hist.startups' # hist.startups
          /\ (_compiled_progs = <<>> /\ _compiled_progs' # <<>>) =>
                (_executor = None /\ _executor' # None)]_vars

\* C8 witness: the parameter was loaded before the first call, the first
\* call was a train call on the GPU, whose startup run initialised the
\* optimizer's variable only, and later calls compiled other programs
C8_Witness ==
    /\ ~dygraph
    /\ _executor = Some("CUDAPlace(0)")
    /\ hist.startups = 1
    /\ _scope = [v \in Params \cup OptVars |-> IF v \in Params THEN "ckpt" ELSE "init"]
    /\ "test_0" \in DOMAIN _compiled_progs
    /\ "eval" \in DOMAIN _compiled_progs

C9_Call(m, l, d, ids) ==
    CASE m = "train" -> TrainCall(PyScalar("a"), l, d, ids)
      [] m = "eval" -> EvalCall(PyScalar("a"), l, d, ids)
      [] m = "test" -> l = None /\ TestCall(PyScalar("a"), d, ids)

C9_Kind(d) == IF d \in {"CPU", "cpu"} THEN "cpu" ELSE IF d \in {"GPU", "gpu"} THEN "gpu" ELSE d
C9_Set(ids) == {ids[i] : i \in 1..Len(ids)}

\* C9 (as claimed): in static mode the compiled program a train, eval or test
\* call with a device_ids list that is not empty hands to the executor was
\* compiled for the call's mode, for its device kind and for its set of
\* device ids.
C9_CompiledForCall ==
    [][\A m \in Modes, l \in {None, Some(PyList(<<1>>))}, d \in AllDevices,
          ids \in AllDeviceIds \ {None, Some(<<>>)} :
          C9_Call(m, l, d, ids) =>
             LET st == run(AdapterState, m, NumOutputs, _loss_functions, <<"a">>,
                           IF l = None THEN None ELSE Some(to_list(l[1])), d, ids)
             IN  st.exc = "" =>
                   /\ st.ran[1].prog.mode = m
                   /\ st.ran[1].device = C9_Kind(d)
                   /\ C9_Set(st.ran[1].device_ids) = C9_Set(ids[1])]_vars

====
